---- MODULE Spec2Model ----
(***************************************************************************)
(* Model of the Playblast Quad View add-on (src/quad_view_playblast.py).   *)
(*                                                                         *)
(* Every operator of the add-on is an action (or, for the modal operators, *)
(* one action per callback).  The host application is modelled by the      *)
(* state the operators read and write: the screen's areas, the viewport    *)
(* overlay flags, the scene list, the window's active scene, the playhead  *)
(* and the file system below the output path.  Results of host calls the   *)
(* add-on cannot predict (an exception, the size of an image) are inputs   *)
(* drawn with \E.                                                          *)
(***************************************************************************)
EXTENDS Integers, Sequences, FiniteSets, TLC

(***************************************************************************)
(* Bounds of the model.                                                    *)
(***************************************************************************)
MaxAreas == 2        \* areas in the active screen
MaxToggles == 3      \* layout toggles in one behaviour
MaxOpens == 2        \* open-folder requests in one behaviour
MaxFrames == 2       \* frames in the scene's frame range
MaxDim == 3          \* width and height of a captured image
MaxRuns == 2         \* requests of the animation capture in one behaviour

VARIABLES
    is_quad_active,  \* QP_Props.is_quad_active
    quad_initial,    \* history: is_quad_active at the start of the behaviour
    toggleLog,       \* history: one record per qp.switch_layout call
    folderExists,    \* os.path.exists(<directory of render_filepath>)
    openLog,         \* history: one record per qp.open_render_folder call
    flags,           \* overlay flags of the 3D viewport's active space
    playhead,        \* scene.frame_current
    folderFiles,     \* files written beside the output file
    tempExists,      \* os.path.exists(<temp directory>)
    tempFiles,       \* names of the files in the temp directory
    scenes,          \* names in bpy.data.scenes
    windowScene,     \* context.window.scene
    cmb,             \* outcome of the latest qp.combine_images_to_video call
    ss,              \* the qp.screenshot_quadview operator instance
    an               \* the qp.screenshot_quadview_anim operator instance

layoutVars == <<is_quad_active, quad_initial, toggleLog, openLog>>

hostVars == <<flags, playhead, folderFiles, tempExists, tempFiles, scenes,
              windowScene>>

captureVars == <<hostVars, cmb, ss, an>>

vars == <<layoutVars, folderExists, captureVars>>

(***************************************************************************)
(* The screen: context.screen.areas is a list of areas; an area has a type *)
(* and regions, of which only the presence of a WINDOW region is read.     *)
(***************************************************************************)
Area == [type : {"VIEW_3D", "OTHER"}, window : BOOLEAN]

AreaLists == UNION {[1..n -> Area] : n \in 0..MaxAreas}

Min(S) == CHOOSE x \in S : \A y \in S : x <= y

\* Lines 44-54: the first VIEW_3D area that has a WINDOW region (0: none).
ToggleTargetWrong(areas) ==
    LET idx == {i \in 1..Len(areas) : areas[i].type = "VIEW_3D"}
    IN  IF idx = {} THEN 0 ELSE Min(idx)

ToggleTarget(areas) ==
    LET idx == {i \in 1..Len(areas) :
                    areas[i].type = "VIEW_3D" /\ areas[i].window}
    IN  IF idx = {} THEN 0 ELSE Min(idx)

\* Lines 46-56, read as a predicate: some VIEW_3D area has a WINDOW region.
HasViewportWindow(areas) ==
    \E i \in 1..Len(areas) : areas[i].type = "VIEW_3D" /\ areas[i].window

Report(level, msg) == <<level, msg>>

Levels(reports) == {reports[i][1] : i \in 1..Len(reports)}

(***************************************************************************)
(* qp.switch_layout                                                        *)
(***************************************************************************)
FlipAlwaysOn(flag) == TRUE

\* Line 63.
Flip(flag) == ~flag

SwitchLayoutExecute ==
    /\ Len(toggleLog) < MaxToggles
    /\ \E areas \in AreaLists, raises \in BOOLEAN :
         LET target == ToggleTarget(areas) IN
         \/ /\ target = 0                       \* lines 56-58
            /\ toggleLog' = Append(toggleLog,
                   [ret |-> "CANCELLED", quadview |-> 0,
                    viewport |-> HasViewportWindow(areas),
                    reports |-> <<Report("ERROR", "no View3D/WINDOW")>>,
                    before |-> is_quad_active, after |-> is_quad_active])
            /\ UNCHANGED is_quad_active
         \/ /\ target # 0                       \* lines 60-62, 69-71
            /\ raises
            /\ toggleLog' = Append(toggleLog,
                   [ret |-> "CANCELLED", quadview |-> 1,
                    viewport |-> HasViewportWindow(areas),
                    reports |-> <<Report("ERROR", "exception")>>,
                    before |-> is_quad_active, after |-> is_quad_active])
            /\ UNCHANGED is_quad_active
         \/ /\ target # 0                       \* lines 60-68, 73
            /\ ~raises
            /\ is_quad_active' = Flip(is_quad_active)
            /\ toggleLog' = Append(toggleLog,
                   [ret |-> "FINISHED", quadview |-> 1,
                    viewport |-> HasViewportWindow(areas),
                    reports |-> <<Report("INFO",
                        IF is_quad_active' THEN "Quad View enabled"
                        ELSE "Returned to original layout")>>,
                    before |-> is_quad_active, after |-> is_quad_active'])
    /\ UNCHANGED <<quad_initial, folderExists, openLog, captureVars>>

(***************************************************************************)
(* qp.open_render_folder                                                   *)
(***************************************************************************)
Platforms == {"Windows", "Darwin", "Linux"}

\* Lines 87-92: the OS call made for a platform.
OsCall(platform) ==
    IF platform = "Windows" THEN "startfile"
    ELSE IF platform = "Darwin" THEN "open"
    ELSE "xdg-open"

OpenCallsAlways(exists, platform) == <<OsCall(platform)>>

\* Lines 83-95: the OS calls of one request.
OpenCalls(exists, platform) ==
    IF exists THEN <<OsCall(platform)>> ELSE <<>>

OpenRenderFolderExecute ==
    /\ Len(openLog) < MaxOpens
    /\ \E platform \in Platforms :
         openLog' = Append(openLog,
             [ret |-> "FINISHED", platform |-> platform,
              exists |-> folderExists,
              oscalls |-> OpenCalls(folderExists, platform),
              reports |-> IF folderExists
                          THEN <<Report("INFO", "Opened folder")>>
                          ELSE <<Report("ERROR", "Folder does not exist")>>])
    /\ UNCHANGED <<is_quad_active, quad_initial, toggleLog, folderExists,
                   captureVars>>

(***************************************************************************)
(* Paths.  render_filepath keeps its default; a path is a directory, a     *)
(* base name and an extension, which is what dirname, basename and         *)
(* splitext take apart.                                                    *)
(***************************************************************************)
\* Line 23.
render_filepath == [dir |-> "//", base |-> "quadview_render", ext |-> ".mp4"]

\* Lines 126-129: the single-frame capture's file.
ShotPath(p) == [dir |-> p.dir, base |-> p.base, ext |-> ".png"]

\* Lines 214-218 and 288-291: the temp directory.
TempFolder(p) == [dir |-> p.dir, base |-> p.base, suffix |-> "_temp"]

(***************************************************************************)
(* Frame file names: f"quadview_frame_{n:04d}.png".  The number is kept as *)
(* its decimal digits, most significant first.                             *)
(***************************************************************************)
RECURSIVE Digits(_)
Digits(n) == IF n < 10 THEN <<n>> ELSE Digits(n \div 10) \o <<n % 10>>

RECURSIVE PadZero(_, _)
PadZero(d, width) ==
    IF Len(d) >= width THEN d ELSE PadZero(<<0>> \o d, width)

PadWidth == 4

\* Line 269: {n:04d}, for n >= 0.
Format04d(n) == PadZero(Digits(n), PadWidth)

\* Line 269.
FrameName(n) ==
    [stem |-> "quadview_frame_", digits |-> Format04d(n), ext |-> ".png"]

ForeignFile == [stem |-> "notes", digits |-> <<>>, ext |-> ".txt"]

IsPngAny(name) == TRUE

\* Line 297: f.endswith('.png').
IsPng(name) == name.ext = ".png"

\* Line 297: the order of sorted() on two names, character by character; a
\* name that ends first is followed by '.', which sorts before every digit.
RECURSIVE DigitsLess(_, _)
DigitsLess(a, b) ==
    IF a = <<>> THEN b # <<>>
    ELSE IF b = <<>> THEN FALSE
    ELSE IF Head(a) # Head(b) THEN Head(a) < Head(b)
    ELSE DigitsLess(Tail(a), Tail(b))

NameLess(a, b) ==
    IF a.stem # b.stem THEN a.stem = "notes"
    ELSE DigitsLess(a.digits, b.digits)

RECURSIVE SortNames(_)
SortNames(S) ==
    IF S = {} THEN <<>>
    ELSE LET m == CHOOSE x \in S : \A y \in S \ {x} : NameLess(x, y)
         IN  <<m>> \o SortNames(S \ {m})

\* Line 297.
SortedImages(files) == SortNames({f \in files : IsPng(f)})

(***************************************************************************)
(* qp.combine_images_to_video                                              *)
(***************************************************************************)
VideoSceneName == "CombineVideoScene"

RoundEvenDown(n) == IF n % 2 # 0 THEN n - 1 ELSE n

\* Lines 308-311.
RoundEven(n) == IF n % 2 # 0 THEN n + 1 ELSE n

RmtreeFailureAsError == Report("ERROR", "Could not delete temp folder")

\* Line 370.
RmtreeFailureReport == Report("WARNING", "Could not delete temp folder")

NoCombine ==
    [ret |-> "NONE", reports |-> <<>>, renders |-> 0, created |-> 0,
     size |-> <<0, 0>>, resolution |-> <<0, 0>>, images |-> <<>>,
     strip |-> <<>>, raised |-> "none", rmtree |-> "none", pre |-> <<>>,
     frame_end |-> 0, duration |-> 0]

\* What the combiner reads of the host on entry.
HostView == [tempExists |-> tempExists, tempFiles |-> tempFiles,
             scenes |-> scenes, windowScene |-> windowScene]

CombineInputs ==
    [w : 1..MaxDim, h : 1..MaxDim, stripRaises : BOOLEAN,
     renderRaises : BOOLEAN, rmFails : BOOLEAN]

RemoveSceneKeep(all, name) == all

\* Lines 362-363 and 372-373: bpy.data.scenes.remove by name, if present.
RemoveScene(all, name) == all \ {name}

\* Lines 284-376.  `in` holds what the host decides: the first image's size
\* and which of the host calls raise; `fallback` is the scene the host makes
\* active when the window's active scene is removed; `left` is what a
\* failed rmtree leaves in the directory.
AfterFailureCleared(files) == {}

\* Lines 360-364: the handler removes the scene and touches no file.
AfterFailure(files) == files

CombineExecute(in, fallback, left) ==
    LET images == SortedImages(tempFiles)
        base == [NoCombine EXCEPT !.pre = HostView, !.images = images]
    IN
    IF ~tempExists THEN                               \* lines 293-295
        /\ cmb' = [base EXCEPT !.ret = "CANCELLED",
                       !.reports = <<Report("ERROR", "no temp folder")>>]
        /\ UNCHANGED <<tempExists, tempFiles, scenes, windowScene,
                       folderFiles>>
    ELSE IF images = <<>> THEN                        \* lines 298-300
        /\ cmb' = [base EXCEPT !.ret = "CANCELLED",
                       !.reports = <<Report("ERROR", "no images")>>]
        /\ UNCHANGED <<tempExists, tempFiles, scenes, windowScene,
                       folderFiles>>
    ELSE
        LET made == [base EXCEPT
                        !.frame_end = Len(images),    \* line 328
                        !.created = 1,                \* lines 313-316
                        !.size = <<in.w, in.h>>,      \* lines 302-305
                        !.resolution = <<RoundEven(in.w), RoundEven(in.h)>>]
            withScene == RemoveScene(scenes, VideoSceneName)
                            \cup {VideoSceneName}
        IN
        IF in.stripRaises \/ in.renderRaises THEN     \* lines 340-364
            /\ cmb' = [made EXCEPT
                          !.ret = "CANCELLED",
                          !.renders = IF in.stripRaises THEN 0 ELSE 1,
                          !.strip = IF in.stripRaises THEN <<>> ELSE images,
                          !.duration = IF in.stripRaises THEN 0
                                       ELSE Len(images),
                          !.raised = IF in.stripRaises THEN "strip"
                                     ELSE "render",
                          !.reports = <<Report("ERROR", "Error creating video")>>]
            /\ scenes' = RemoveScene(withScene, VideoSceneName)
            /\ windowScene' = fallback
            /\ tempFiles' = AfterFailure(tempFiles)
            /\ UNCHANGED <<tempExists, folderFiles>>
        ELSE                                          \* lines 340-358, 366-376
            /\ cmb' = [made EXCEPT
                          !.ret = "FINISHED",
                          !.renders = 1,
                          !.strip = images,           \* lines 344-352
                          !.duration = Len(images),   \* line 354
                          !.rmtree = IF in.rmFails THEN "failed" ELSE "done",
                          !.reports =
                              <<IF in.rmFails
                                THEN RmtreeFailureReport
                                ELSE Report("INFO", "Temporary image folder deleted"),
                                Report("INFO", "Video completed")>>]
            /\ folderFiles' = folderFiles \cup {render_filepath}
            /\ tempExists' = in.rmFails
            /\ tempFiles' = IF in.rmFails THEN left ELSE {}
            /\ scenes' = RemoveScene(withScene, VideoSceneName)
            /\ UNCHANGED windowScene

\* Line 367: what a failed rmtree leaves in the directory, which itself
\* stays: every file (the first removal failed) or none (only the removal of
\* the directory failed).
Leftovers(files) == {files, {}}

\* The combiner run with every choice the host may make.
Combine ==
    \E in \in CombineInputs,
       fallback \in RemoveScene(scenes, VideoSceneName),
       left \in Leftovers(tempFiles) :
        CombineExecute(in, fallback, left)

\* The operator requested on its own (it is registered, line 439).
CombineRequest ==
    /\ cmb.ret = "NONE"
    /\ Combine
    /\ UNCHANGED <<layoutVars, folderExists, flags, playhead, ss, an>>

(***************************************************************************)
(* What the two capture operators share.                                   *)
(***************************************************************************)
CaptureTargetAnyArea(areas) ==
    IF \E i \in 1..Len(areas) : areas[i].type = "VIEW_3D"
    THEN "ok" ELSE "VIEW_3D not found"

\* Lines 113-124 and 194-205: the first VIEW_3D area, then its WINDOW region.
CaptureTarget(areas) ==
    LET idx == {i \in 1..Len(areas) : areas[i].type = "VIEW_3D"} IN
    IF idx = {} THEN "VIEW_3D not found"
    ELSE IF ~areas[Min(idx)].window THEN "WINDOW region not found"
    ELSE "ok"

\* Lines 113-124, read as a predicate: there is a VIEW_3D area and the first
\* one has a WINDOW region.
FirstViewportHasWindow(areas) ==
    \E i \in 1..Len(areas) :
        /\ areas[i].type = "VIEW_3D"
        /\ areas[i].window
        /\ \A j \in 1..(i - 1) : areas[j].type # "VIEW_3D"

\* hasattr(context.space_data, ...), lines 138-141.
SpaceAttrs == SUBSET {"show_gizmo", "show_region_tool_header"}

Flags == [ui : BOOLEAN, toolbar : BOOLEAN, gizmo : BOOLEAN,
          tool_header : BOOLEAN]

HideOverlaysKeep(f, attrs) == f

\* Lines 135-141 and 224-230.
HideOverlays(f, attrs) ==
    [ui |-> FALSE,
     toolbar |-> FALSE,
     gizmo |-> IF "show_gizmo" \in attrs THEN FALSE ELSE f.gizmo,
     tool_header |-> IF "show_region_tool_header" \in attrs THEN FALSE
                     ELSE f.tool_header]

\* Lines 160-166 and 250-256.
RestoreOverlays(f, ui_was, toolbar_was, attrs) ==
    [ui |-> ui_was,
     toolbar |-> toolbar_was,
     gizmo |-> IF "show_gizmo" \in attrs THEN TRUE ELSE f.gizmo,
     tool_header |-> IF "show_region_tool_header" \in attrs THEN TRUE
                     ELSE f.tool_header]

\* A TIMER event reaches every modal handler of the window, whichever
\* operator added the timer (lines 152 and 242 test the event type only).
TimerEvent == ss.timer \/ an.timer

\* An operator instance whose modal handler is registered.
Running(op) == op.pc = "running"

\* An operator instance whose modal handler has come to its end.
Ended(op) == op.pc \in {"done", "raised"}

NoPath == [dir |-> "", base |-> "", ext |-> ""]

NoFolder == [dir |-> "", base |-> "", suffix |-> ""]

(***************************************************************************)
(* qp.screenshot_quadview                                                  *)
(***************************************************************************)
\* Lines 105-110: the attributes of a new instance.
IdleShot ==
    [pc |-> "idle", ret |-> "NONE", reports |-> <<>>,
     ui_was |-> FALSE, toolbar_was |-> FALSE, timer |-> FALSE,
     file_path |-> NoPath, attrs |-> {}, handler |-> FALSE,
     pre |-> <<>>, shots |-> <<>>,
     \* history: the request found its viewport; it was made while the other
     \* capture was running; no other capture ran beside it; the other
     \* capture had ended when it ended
     found |-> FALSE, second |-> FALSE, alone |-> TRUE, last |-> FALSE]

\* Lines 112-149.
ScreenshotExecute ==
    /\ ss.pc = "idle"
    /\ \E areas \in AreaLists, attrs \in SpaceAttrs :
         LET target == CaptureTarget(areas) IN
         IF target # "ok" THEN                        \* lines 117-124
            /\ ss' = [IdleShot EXCEPT !.pc = "cancelled",
                         !.ret = "CANCELLED",
                         !.found = FirstViewportHasWindow(areas),
                         !.reports = <<Report("ERROR", target)>>]
            /\ UNCHANGED <<folderExists, flags, an>>
         ELSE
            /\ folderExists' = TRUE                   \* line 130
            /\ flags' = HideOverlays(flags, attrs)    \* lines 132-141
            /\ ss' = [IdleShot EXCEPT
                         !.pc = "running",
                         !.ret = "RUNNING_MODAL",
                         !.file_path = ShotPath(render_filepath),
                         !.ui_was = flags.ui,         \* line 133
                         !.toolbar_was = flags.toolbar,
                         !.attrs = attrs,
                         !.timer = TRUE,              \* line 146
                         !.handler = TRUE,            \* line 147
                         !.pre = <<flags>>,
                         !.found = FirstViewportHasWindow(areas),
                         !.second = Running(an),
                         !.alone = ~Running(an)]
            /\ an' = IF Running(an) THEN [an EXCEPT !.alone = FALSE]
                     ELSE an
    /\ UNCHANGED <<layoutVars, playhead, folderFiles, tempExists, tempFiles,
                   scenes, windowScene, cmb>>

\* Lines 151-171: modal() called with a TIMER event.
ScreenshotModalTimer ==
    /\ ss.pc = "running"
    /\ TimerEvent
    /\ folderFiles' = folderFiles \cup {ss.file_path}     \* lines 156-157
    /\ flags' = RestoreOverlays(flags, ss.ui_was, ss.toolbar_was, ss.attrs)
    /\ ss' = [ss EXCEPT
                 !.pc = "done",
                 !.ret = "FINISHED",
                 !.timer = FALSE,                          \* line 154
                 !.handler = FALSE,
                 !.last = Ended(an),
                 !.shots = Append(@, [path |-> ss.file_path,
                                      ui |-> flags.ui,
                                      toolbar |-> flags.toolbar]),
                 !.reports = <<Report("INFO", "Image saved")>>]
    /\ UNCHANGED <<layoutVars, folderExists, playhead, tempExists, tempFiles,
                   scenes, windowScene, cmb, an>>

\* Lines 152 and 173: modal() called with any other event.
ScreenshotModalOther ==
    /\ ss.pc = "running"
    /\ ss' = [ss EXCEPT !.ret = "RUNNING_MODAL"]
    /\ UNCHANGED <<layoutVars, folderExists, hostVars, cmb, an>>

(***************************************************************************)
(* qp.screenshot_quadview_anim                                             *)
(***************************************************************************)
\* Line 237.
WaitFrames == 2

\* First frames of the scene ranges tried: an ordinary one and one whose
\* range runs past four digits.
StartFrames == {1, 9999}

FrameRanges ==
    {<<s, s + n - 1>> : s \in StartFrames, n \in 1..MaxFrames}

\* Lines 182-191: the attributes of a new instance.
IdleAnim ==
    [pc |-> "idle", ret |-> "NONE", reports |-> <<>>,
     frame_current |-> 0, frame_start |-> 0, frame_end |-> 0,
     folder_path |-> NoFolder, ui_was |-> FALSE, toolbar_was |-> FALSE,
     timer |-> FALSE, handler |-> FALSE, wait_frames |-> WaitFrames,
     attrs |-> {}, range |-> <<>>, pre |-> <<>>,
     captures |-> <<>>, combines |-> 0,
     \* history: TIMER events handled; what the finishing tick did, in
     \* order; requests made before this one; and as for the single capture
     ticks |-> 0, steps |-> <<>>, runs |-> 0,
     found |-> FALSE, second |-> FALSE, alone |-> TRUE, last |-> FALSE]

\* Lines 193-239.
AnimExecute ==
    /\ an.pc = "idle"
    /\ \E areas \in AreaLists, attrs \in SpaceAttrs, range \in FrameRanges :
         LET target == CaptureTarget(areas) IN
         IF target # "ok" THEN                        \* lines 198-205
            /\ an' = [IdleAnim EXCEPT !.pc = "cancelled",
                         !.ret = "CANCELLED",
                         !.runs = an.runs,
                         !.found = FirstViewportHasWindow(areas),
                         !.reports = <<Report("ERROR", target)>>]
            /\ UNCHANGED <<folderExists, flags, playhead, tempExists, ss>>
         ELSE
            /\ playhead' = 1                          \* line 208
            /\ folderExists' = TRUE                   \* line 219
            /\ tempExists' = TRUE
            /\ flags' = HideOverlays(flags, attrs)    \* lines 221-230
            /\ an' = [IdleAnim EXCEPT
                         !.pc = "running",
                         !.ret = "RUNNING_MODAL",
                         !.frame_start = range[1],    \* lines 209-211
                         !.frame_end = range[2],
                         !.frame_current = range[1],
                         !.folder_path = TempFolder(render_filepath),
                         !.ui_was = flags.ui,         \* lines 222-223
                         !.toolbar_was = flags.toolbar,
                         !.attrs = attrs,
                         !.handler = TRUE,            \* line 234
                         !.timer = TRUE,              \* line 235
                         !.wait_frames = WaitFrames,  \* line 237
                         !.range = range,
                         !.pre = <<flags>>,
                         !.runs = an.runs,
                         !.found = FirstViewportHasWindow(areas),
                         !.second = Running(ss),
                         !.alone = ~Running(ss)]
            /\ ss' = IF Running(ss) THEN [ss EXCEPT !.alone = FALSE]
                     ELSE ss
    /\ UNCHANGED <<layoutVars, folderFiles, tempFiles, scenes, windowScene,
                   cmb>>

NextFrameStuck(n) == n

NextFrameSkip(n) == n + 2

\* Line 274.
NextFrame(n) == n + 1

CountdownSkip(w) == 0

\* Line 244.
Countdown(w) == w - 1

RangeDoneEarly(current, end) == current >= end

\* Line 248.
RangeDone(current, end) == current > end

\* Lines 241-276: modal() called with a TIMER event.
AnimModalTimer ==
    /\ an.pc = "running"
    /\ TimerEvent
    /\ IF an.wait_frames > 0 THEN                     \* lines 243-245
          /\ an' = [an EXCEPT !.wait_frames = Countdown(@),
                                !.ticks = @ + 1,
                                !.ret = "RUNNING_MODAL"]
          /\ UNCHANGED <<hostVars, cmb>>
       ELSE IF RangeDone(an.frame_current, an.frame_end) THEN \* lines 248-264
          /\ flags' = RestoreOverlays(flags, an.ui_was, an.toolbar_was,
                                      an.attrs)
          /\ Combine                                  \* line 262
          \* bpy.ops raises when the operator it calls reports an error.
          /\ an' = [an EXCEPT
                       !.pc = IF cmb'.ret = "FINISHED" THEN "done"
                              ELSE "raised",
                       !.ret = IF cmb'.ret = "FINISHED" THEN "FINISHED"
                               ELSE "EXCEPTION",
                       !.timer = FALSE,               \* line 259
                       !.handler = FALSE,
                       !.combines = @ + 1,
                       !.ticks = @ + 1,
                       !.last = Ended(ss),
                       \* lines 249-251, 259, 262 in the order they run,
                       \* each with what it leaves behind
                       !.steps = <<[op |-> "restore", ui |-> flags'.ui,
                                    toolbar |-> flags'.toolbar,
                                    timer |-> an.timer,
                                    captures |-> Len(an.captures)],
                                   [op |-> "timer_remove", ui |-> flags'.ui,
                                    toolbar |-> flags'.toolbar,
                                    timer |-> FALSE,
                                    captures |-> Len(an.captures)],
                                   [op |-> "combine", ui |-> flags'.ui,
                                    toolbar |-> flags'.toolbar,
                                    timer |-> FALSE,
                                    captures |-> Len(an.captures)]>>,
                       !.reports = <<Report("INFO", "Finished video")>>]
          /\ UNCHANGED playhead
       ELSE                                           \* lines 266-276
          /\ playhead' = an.frame_current             \* line 266
          \* The host creates the parent directory of a screenshot.
          /\ tempExists' = TRUE
          /\ tempFiles' = tempFiles \cup {FrameName(an.frame_current)}
          /\ an' = [an EXCEPT
                       !.captures = Append(@,
                           [frame |-> playhead',
                            dir |-> an.folder_path,
                            name |-> FrameName(an.frame_current),
                            ui |-> flags.ui,
                            toolbar |-> flags.toolbar]),
                       !.frame_current = NextFrame(@),
                       !.ticks = @ + 1,
                       !.ret = "RUNNING_MODAL"]
          /\ UNCHANGED <<flags, folderFiles, scenes, windowScene, cmb>>
    /\ UNCHANGED <<layoutVars, folderExists, ss>>

\* Lines 242 and 276: modal() called with any other event.
AnimModalOther ==
    /\ an.pc = "running"
    /\ an' = [an EXCEPT !.ret = "RUNNING_MODAL"]
    /\ UNCHANGED <<layoutVars, folderExists, hostVars, cmb, ss>>

\* Lines 177-191: the instance that ended is gone and the operator is
\* requested once more; the new request gets a new instance, and so does the
\* combiner it will call.  The host keeps what the earlier request left.
AnimRequestAgain ==
    /\ an.pc \in {"done", "raised", "cancelled"}
    /\ an.runs + 1 < MaxRuns
    /\ an' = [IdleAnim EXCEPT !.runs = an.runs + 1]
    /\ cmb' = NoCombine
    /\ UNCHANGED <<layoutVars, folderExists, hostVars, ss>>

(***************************************************************************)
(* Initial states and specifications.  An operator instance is followed    *)
(* from its request to its end; what earlier requests may have left in the *)
(* host (overlay flags, files in the temp directory, scenes) is drawn in   *)
(* the initial state.                                                      *)
(***************************************************************************)
ShownFlags == [ui |-> TRUE, toolbar |-> TRUE, gizmo |-> TRUE,
               tool_header |-> TRUE]

\* The temp directory on start: absent, empty, holding a file that is no
\* image, or holding frames an earlier run left there (lines 360-364 leave
\* them when the encode fails).
TempStates ==
    {<<FALSE, {}>>, <<TRUE, {}>>, <<TRUE, {ForeignFile}>>,
     <<TRUE, {FrameName(2)}>>}

CombineTempStates ==
    TempStates \cup
    {<<TRUE, {FrameName(f) : f \in s..(s + n - 1)} \cup x>> :
        s \in StartFrames, n \in 1..MaxFrames, x \in {{}, {ForeignFile}}}

\* The scene list on start; a scene named like the render scene may be
\* there already (lines 314-315 expect it), but is not the active one.
SceneLists == {{"Scene"}, {"Scene", "Shot"},
               {"Scene", VideoSceneName}, {"Scene", "Shot", VideoSceneName}}

\* Line 28: the flag's default; no layout request has been made.
InitLayout ==
    /\ is_quad_active = FALSE
    /\ quad_initial = is_quad_active
    /\ toggleLog = <<>>
    /\ openLog = <<>>

InitOperators ==
    /\ cmb = NoCombine
    /\ ss = IdleShot
    /\ an = IdleAnim
    /\ playhead = 0
    /\ folderFiles = {}
    /\ windowScene = "Scene"

\* The settings operators: qp.switch_layout and qp.open_render_folder.
InitSettings ==
    /\ is_quad_active \in BOOLEAN
    /\ quad_initial = is_quad_active
    /\ toggleLog = <<>>
    /\ openLog = <<>>
    /\ InitOperators
    /\ folderExists \in BOOLEAN
    /\ flags = ShownFlags
    /\ tempExists = FALSE
    /\ tempFiles = {}
    /\ scenes = {"Scene"}

NextLayout ==
    \/ SwitchLayoutExecute
    \/ OpenRenderFolderExecute

SpecLayout == InitSettings /\ [][NextLayout]_vars

\* The single-frame capture: qp.screenshot_quadview.
InitShot ==
    /\ InitLayout
    /\ InitOperators
    /\ folderExists \in BOOLEAN
    /\ flags \in Flags
    /\ tempExists = FALSE
    /\ tempFiles = {}
    /\ scenes = {"Scene"}

NextShot ==
    \/ ScreenshotExecute
    \/ ScreenshotModalTimer
    \/ ScreenshotModalOther

SpecShot == InitShot /\ [][NextShot]_vars

\* The combiner requested on its own: qp.combine_images_to_video.
InitCombine ==
    /\ InitLayout
    /\ InitOperators
    /\ flags = ShownFlags
    /\ \E t \in CombineTempStates : tempExists = t[1] /\ tempFiles = t[2]
    /\ folderExists \in {b \in BOOLEAN : tempExists => b}
    /\ scenes \in SceneLists

NextCombine == CombineRequest

SpecCombine == InitCombine /\ [][NextCombine]_vars

\* The animation capture, which ends in the combiner:
\* qp.screenshot_quadview_anim.
Init ==
    /\ InitLayout
    /\ InitOperators
    /\ flags \in Flags
    /\ \E t \in TempStates : tempExists = t[1] /\ tempFiles = t[2]
    /\ folderExists = tempExists
    /\ scenes \in {{"Scene"}, {"Scene", "Shot", VideoSceneName}}

Next ==
    \/ AnimExecute
    \/ AnimModalTimer
    \/ AnimModalOther

Spec == Init /\ [][Next]_vars

\* The animation capture with the window manager's timer: the timer added at
\* line 234 fires every 0.05 s until line 259 removes it, so a TIMER event
\* keeps being delivered while the handler is registered.
InitLive ==
    /\ Init
    /\ flags = ShownFlags

SpecLive == InitLive /\ [][Next]_vars /\ WF_vars(AnimModalTimer)

\* The animation capture requested again after it ended, on the same output
\* path and on a host that starts clean.
InitRuns ==
    /\ InitLayout
    /\ InitOperators
    /\ folderExists = FALSE
    /\ flags = ShownFlags
    /\ tempExists = FALSE
    /\ tempFiles = {}
    /\ scenes = {"Scene"}

NextRuns ==
    \/ Next
    \/ AnimRequestAgain

SpecRuns == InitRuns /\ [][NextRuns]_vars

\* Both capture operators in one session: neither has a poll() nor a guard
\* on the other, so a request is served while the other's handler runs.
InitBoth ==
    /\ InitLayout
    /\ InitOperators
    /\ folderExists = FALSE
    \* the sidebar and the toolbar both shown, or both hidden
    /\ flags \in {f \in Flags : /\ f.gizmo /\ f.tool_header
                                /\ f.ui = f.toolbar}
    /\ tempExists = FALSE
    /\ tempFiles = {}
    /\ scenes = {"Scene"}

NextBoth ==
    \/ NextShot
    \/ Next

SpecBoth == InitBoth /\ [][NextBoth]_vars

(***************************************************************************)
(* Properties of the layout toggle and of the folder opener.               *)
(***************************************************************************)
Succeeded(log) == {i \in 1..Len(log) : log[i].ret = "FINISHED"}

\* C2: the stored flag differs from its initial value iff an odd number of
\* toggles succeeded; in particular two successive successful toggles (with
\* only failed ones between them) return the flag to the value it had
\* before the first of the two.
C2_ToggleParity ==
    /\ (is_quad_active # quad_initial)
          <=> (Cardinality(Succeeded(toggleLog)) % 2 = 1)
    /\ \A i, j \in Succeeded(toggleLog) :
          (i < j /\ \A k \in Succeeded(toggleLog) : ~(i < k /\ k < j))
             => toggleLog[j].after = toggleLog[i].before

C2_Witness ==
    /\ Cardinality(Succeeded(toggleLog)) = 2
    /\ is_quad_active = quad_initial

\* C3: a toggle that finds no viewport area with a window region reports an
\* error, returns CANCELLED, makes no quad-view call and leaves the flag as
\* it was; the flag is also left as it was when the quad-view call raises.
C3_ToggleFailureKeepsFlag ==
    /\ \A i \in 1..Len(toggleLog) :
          LET e == toggleLog[i] IN
          /\ ~e.viewport =>
                /\ e.ret = "CANCELLED"
                /\ "ERROR" \in Levels(e.reports)
                /\ e.quadview = 0
                /\ e.after = e.before
          /\ (e.quadview = 1 /\ e.ret = "CANCELLED") =>
                /\ "ERROR" \in Levels(e.reports)
                /\ e.after = e.before
          /\ i < Len(toggleLog) => toggleLog[i + 1].before = e.after
    /\ toggleLog # <<>> =>
          /\ toggleLog[1].before = quad_initial
          /\ toggleLog[Len(toggleLog)].after = is_quad_active

C3_Witness ==
    /\ \E i \in 1..Len(toggleLog) : ~toggleLog[i].viewport
    /\ \E i \in 1..Len(toggleLog) :
          toggleLog[i].quadview = 1 /\ toggleLog[i].ret = "CANCELLED"

\* C9: opening the render folder when it does not exist reports an error
\* and makes no OS call; when it exists exactly one OS call is made, the
\* one of the platform.
C9_OpenFolderCalls ==
    \A i \in 1..Len(openLog) :
        LET e == openLog[i] IN
        /\ e.exists = folderExists
        /\ ~e.exists =>
              /\ e.oscalls = <<>>
              /\ "ERROR" \in Levels(e.reports)
        /\ e.exists =>
              /\ Len(e.oscalls) = 1
              /\ e.platform = "Windows" => e.oscalls[1] = "startfile"
              /\ e.platform = "Darwin" => e.oscalls[1] = "open"
              /\ e.platform \notin {"Windows", "Darwin"} =>
                    e.oscalls[1] = "xdg-open"
              /\ "ERROR" \notin Levels(e.reports)

C9_Witness ==
    /\ ~folderExists
    /\ openLog # <<>>

(***************************************************************************)
(* Properties of the animation capture.                                    *)
(***************************************************************************)
RECURSIVE DigitsValue(_)
DigitsValue(d) ==
    IF d = <<>> THEN 0
    ELSE DigitsValue(SubSeq(d, 1, Len(d) - 1)) * 10 + d[Len(d)]

\* name is quadview_frame_<f>.png with f in decimal, zero-padded to four
\* digits (and not padded beyond them).
IsFrameFileOf(name, f) ==
    /\ name.stem = "quadview_frame_"
    /\ name.ext = ".png"
    /\ \A k \in 1..Len(name.digits) : name.digits[k] \in 0..9
    /\ DigitsValue(name.digits) = f
    /\ Len(name.digits) >= 4
    /\ Len(name.digits) > 4 => name.digits[1] # 0

AnimStarted == an.pc \in {"running", "done", "raised"}

\* C1: an animation capture over the scene range [start, end] issues its
\* captures in the order start, start+1, ..., each with the scene set to
\* that frame and written to the temp directory under the frame's
\* zero-padded name, never more than end-start+1 of them; when it hands
\* over to the combiner (and so when it is done) it has issued exactly
\* end-start+1.
C1_AnimCapturesEachFrameOnce ==
    AnimStarted =>
      LET start == an.range[1]
          end == an.range[2]
          n == Len(an.captures)
      IN
      /\ start <= end
      /\ n <= end - start + 1
      /\ \A i \in 1..n :
            /\ an.captures[i].frame = start + i - 1
            /\ an.captures[i].dir =
                  [dir |-> "//", base |-> "quadview_render", suffix |-> "_temp"]
            /\ IsFrameFileOf(an.captures[i].name, start + i - 1)
      /\ an.pc = "running" =>
            /\ tempExists
            /\ \A i \in 1..n : an.captures[i].name \in tempFiles
      /\ (an.pc = "done" \/ an.combines > 0) =>
            /\ n = end - start + 1
            /\ an.combines = 1

C1_Witness ==
    /\ an.pc = "done"
    /\ an.range = <<9999, 10000>>
    /\ Len(an.captures) = 2
    /\ an.captures[2].name.digits = <<1, 0, 0, 0, 0>>

(***************************************************************************)
(* Properties of the single-frame capture.                                 *)
(***************************************************************************)
\* C10 as stated: when a single-frame capture is done, every overlay flag
\* has the value it had immediately before the request (the flags the
\* request did not disable are never written).
C10_Original ==
    ss.pc = "done" => flags = ss.pre[1]

(***************************************************************************)
(* Properties of the combiner.                                             *)
(***************************************************************************)
CombineReturned == cmb.ret \in {"FINISHED", "CANCELLED"}

NoPngIn(files) == \A f \in files : f.ext # ".png"

\* C4: a combiner that finds the temp directory missing, or holding no .png
\* file, reports an error, returns CANCELLED, renders nothing, creates no
\* render scene and leaves the window's active scene (and the scene list
\* and the directory) as they were.
C4_CombineNothingToDo ==
    (CombineReturned
        /\ (~cmb.pre.tempExists \/ NoPngIn(cmb.pre.tempFiles))) =>
      /\ cmb.ret = "CANCELLED"
      /\ "ERROR" \in Levels(cmb.reports)
      /\ cmb.renders = 0
      /\ cmb.created = 0
      /\ windowScene = cmb.pre.windowScene
      /\ scenes = cmb.pre.scenes
      /\ tempExists = cmb.pre.tempExists
      /\ tempFiles = cmb.pre.tempFiles

C4_Witness ==
    /\ CombineReturned
    /\ cmb.pre.tempExists
    /\ cmb.pre.tempFiles = {ForeignFile}

\* C5 as stated: after a combine that returned FINISHED the temp directory
\* does not exist and the render scene is not in the scene list.
C5_Original ==
    cmb.ret = "FINISHED" =>
      /\ ~tempExists
      /\ VideoSceneName \notin scenes

\* C5 as amended: after a combine that returned FINISHED the render scene is
\* not in the scene list, and the temp directory does not exist unless its
\* deletion failed, which the combiner has then reported as a warning.
C5_CombineSuccessCleanup ==
    cmb.ret = "FINISHED" =>
      /\ VideoSceneName \notin scenes
      /\ "WARNING" \notin Levels(cmb.reports) =>
            (~tempExists /\ tempFiles = {})
      /\ tempExists => "WARNING" \in Levels(cmb.reports)

C5_Witness ==
    /\ cmb.ret = "FINISHED"
    /\ ~tempExists
    /\ VideoSceneName \in cmb.pre.scenes

\* C6: when the render succeeds and deleting the temp directory fails, the
\* combiner reports a warning and no error, removes the render scene and
\* returns FINISHED.
C6_RmtreeFailureIsWarning ==
    cmb.rmtree = "failed" =>
      /\ cmb.renders = 1
      /\ cmb.raised = "none"
      /\ "WARNING" \in Levels(cmb.reports)
      /\ "ERROR" \notin Levels(cmb.reports)
      /\ VideoSceneName \notin scenes
      /\ cmb.ret = "FINISHED"
      /\ tempExists

C6_Witness ==
    /\ cmb.rmtree = "failed"
    /\ tempFiles # {}

\* C7, first half: when strip creation or the render raises, the combiner
\* reports an error, returns CANCELLED and the render scene is removed.
CombineExceptionHandled ==
    cmb.raised # "none" =>
      /\ "ERROR" \in Levels(cmb.reports)
      /\ cmb.ret = "CANCELLED"
      /\ cmb.created = 1
      /\ VideoSceneName \notin scenes

\* C7 as stated: the above, and whenever the combiner has returned, on any
\* path, no scene named CombineVideoScene is in the scene list.
C7_Original ==
    /\ CombineExceptionHandled
    /\ CombineReturned => VideoSceneName \notin scenes

\* C7 as amended: the above, and whenever the combiner has returned after
\* creating the render scene (that is, after finding the temp directory and
\* a .png in it) no scene named CombineVideoScene is in the scene list; on
\* its two earlier CANCELLED returns it leaves the scene list as it found
\* it, a scene of that name included.
C7_CombineSceneRemoved ==
    /\ CombineExceptionHandled
    /\ (CombineReturned /\ cmb.created = 1) => VideoSceneName \notin scenes
    /\ (CombineReturned /\ cmb.created = 0) =>
          (cmb.ret = "CANCELLED" /\ scenes = cmb.pre.scenes)

C7_Witness ==
    /\ cmb.raised = "render"
    /\ VideoSceneName \in cmb.pre.scenes

IsEven(n) == n % 2 = 0

SmallestEvenAtLeast(n, m) ==
    /\ IsEven(m)
    /\ m >= n
    /\ \A k \in n..(m - 1) : ~IsEven(k)

\* C8: the resolution given to the render scene is, in each dimension on
\* its own, the smallest even number not below the first image's size:
\* an even size is kept and an odd one is raised by exactly 1.
C8_ResolutionRoundedToEven ==
    cmb.created = 1 =>
      /\ SmallestEvenAtLeast(cmb.size[1], cmb.resolution[1])
      /\ SmallestEvenAtLeast(cmb.size[2], cmb.resolution[2])
      /\ \A i \in 1..2 :
            cmb.resolution[i] =
                IF IsEven(cmb.size[i]) THEN cmb.size[i] ELSE cmb.size[i] + 1

C8_Witness ==
    /\ cmb.created = 1
    /\ cmb.size = <<3, 2>>
    /\ cmb.resolution = <<4, 2>>

(***************************************************************************)
(* Properties of the capture operators' requests.                          *)
(***************************************************************************)
\* What a request that ended at lines 117-119, 122-124, 198-200 or 203-205
\* leaves in its instance: an ERROR report, CANCELLED, and nothing else.
CancelledAtOnce(op) ==
    /\ op.pc = "cancelled"
    /\ op.ret = "CANCELLED"
    /\ Levels(op.reports) = {"ERROR"}
    /\ ~op.handler
    /\ op.pre = <<>>

\* C11: a request of either capture operator on a screen with no 3D viewport
\* area, or whose first 3D viewport area has no window region, reports an
\* error and returns CANCELLED, and that step changes nothing else: no
\* overlay flag, no directory, not the playhead, no file; no timer and no
\* modal handler is registered, and no screenshot is taken.
C11_NoViewportCancelsBeforeAnyEffect ==
    [][/\ (ss.pc = "idle" /\ ss'.pc # "idle" /\ ~ss'.found) =>
            /\ CancelledAtOnce(ss')
            /\ ~ss'.timer
            /\ ss'.shots = <<>>
            /\ UNCHANGED <<layoutVars, folderExists, hostVars, cmb, an>>
       /\ (an.pc = "idle" /\ an'.pc # "idle" /\ ~an'.found) =>
            /\ CancelledAtOnce(an')
            /\ ~an'.timer
            /\ an'.captures = <<>>
            /\ an'.combines = 0
            /\ UNCHANGED <<layoutVars, folderExists, hostVars, cmb, ss>>
      ]_vars

C11_Witness ==
    /\ CancelledAtOnce(ss) /\ ~ss.found
    /\ CancelledAtOnce(an) /\ ~an.found

(***************************************************************************)
(* Properties of the animation capture's modal handler.                    *)
(***************************************************************************)
\* The job state of the sequencer: line 182-191's counters, the saved flags
\* and the timer.
JobState(op) ==
    <<op.wait_frames, op.frame_current, op.frame_start, op.frame_end,
      op.ui_was, op.toolbar_was, op.timer>>

\* C12: once an animation capture has started no event cancels it: an event
\* that is no timer tick leaves the wait counter, the frame counter, the
\* saved flags and the timer as they are and the operator running; the
\* handler never returns CANCELLED; and the operator ends in one way only,
\* by returning FINISHED on the tick that called the combiner.
C12_Original ==
    [][/\ (Running(an) /\ an'.ticks = an.ticks) =>
            /\ Running(an')
            /\ an'.ret = "RUNNING_MODAL"
            /\ JobState(an') = JobState(an)
            /\ UNCHANGED <<hostVars, cmb>>
       /\ AnimStarted' => an'.ret # "CANCELLED"
       /\ (AnimStarted' /\ ~Running(an')) =>
            /\ an'.ret = "FINISHED"
            /\ an'.combines = 1
      ]_vars

\* C13: a capture requested while the other capture is running is served,
\* not rejected, and it records the overlay flags the first one has hidden:
\* when the first one ends before it, the sidebar and the toolbar end up
\* hidden whatever they were before the first request, so an interleaving of
\* the two operators' start and finish steps leaves flags that differ from
\* those before the first operation started.
C13_SecondCaptureSavesHiddenFlags ==
    /\ (ss.second /\ ss.found) =>
            /\ ss.pc \in {"running", "done"}
            /\ ~ss.ui_was /\ ~ss.toolbar_was
            /\ (ss.pc = "done" /\ ss.last) =>
                    ~flags.ui /\ ~flags.toolbar
    /\ (an.second /\ an.found) =>
            /\ an.pc \in {"running", "done", "raised"}
            /\ ~an.ui_was /\ ~an.toolbar_was
            /\ (Ended(an) /\ an.last) =>
                    ~flags.ui /\ ~flags.toolbar

C13_Witness ==
    /\ ss.second /\ ss.pc = "done" /\ ss.last
    /\ Ended(an)
    /\ an.pre[1].ui /\ an.pre[1].toolbar
    /\ flags.ui # an.pre[1].ui
    /\ flags.toolbar # an.pre[1].toolbar

\* Frames in the range recorded at lines 213-215.
RangeLength(op) == op.frame_end - op.frame_start + 1

\* The tick on which the frame counter first exceeds the recorded end frame:
\* the warm-up ticks, one tick per frame, and one more.
FinishingTick(op) == WaitFrames + RangeLength(op) + 1

\* C14: the combiner is called on exactly one timer tick, the first tick
\* after the warm-up on which the frame counter exceeds the recorded end
\* frame.  On that tick, in this order, the sidebar and toolbar flags go back
\* to the values recorded at the request, the timer is removed, the combiner
\* is called once, and the operator's run is over (its handler and timer are
\* gone).  The combiner is not called before the end frame's capture has
\* been issued, and no capture is issued after the combiner was called.
C14_CombineOnceAfterLastFrame ==
    /\ an.combines <= 1
    /\ (an.combines = 1) = Ended(an)
    /\ (cmb.ret # "NONE") => Ended(an)
    /\ Running(an) =>
            /\ an.ticks < FinishingTick(an)
            /\ an.steps = <<>>
            /\ Len(an.captures) < RangeLength(an) => cmb.ret = "NONE"
    /\ Ended(an) =>
            /\ an.ticks = FinishingTick(an)
            /\ an.frame_current = an.frame_end + 1
            /\ Len(an.steps) = 3
            /\ an.steps[1].op = "restore"
            /\ an.steps[1].ui = an.pre[1].ui
            /\ an.steps[1].toolbar = an.pre[1].toolbar
            /\ an.steps[1].timer
            /\ an.steps[2].op = "timer_remove"
            /\ an.steps[2].ui = an.pre[1].ui
            /\ an.steps[2].toolbar = an.pre[1].toolbar
            /\ ~an.steps[2].timer
            /\ an.steps[3].op = "combine"
            /\ an.steps[3].ui = an.pre[1].ui
            /\ an.steps[3].toolbar = an.pre[1].toolbar
            /\ ~an.steps[3].timer
            /\ an.steps[3].captures = RangeLength(an)
            /\ Len(an.captures) = an.steps[3].captures
            /\ an.captures[Len(an.captures)].frame = an.frame_end
            /\ flags.ui = an.pre[1].ui
            /\ flags.toolbar = an.pre[1].toolbar
            /\ ~an.timer
            /\ ~an.handler

C14_Witness ==
    /\ an.pc = "done"
    /\ Len(an.captures) = MaxFrames
    /\ an.pre[1].ui
    /\ ~an.pre[1].toolbar
    /\ an.steps # <<>>

\* C15: the first two timer ticks after the request are discarded whatever
\* the state: each takes one from the wait counter and changes nothing
\* else, so no frame is set, no file written and the frame counter stays at
\* the start frame.  The first capture, of the start frame, is made on the
\* third tick, and the wait counter never goes below zero.
C15_WarmupTicksDiscarded ==
    /\ [](AnimStarted =>
            /\ an.wait_frames \in 0..WaitFrames
            /\ an.ticks <= WaitFrames =>
                    /\ an.wait_frames = WaitFrames - an.ticks
                    /\ an.captures = <<>>
                    /\ an.frame_current = an.frame_start
                    /\ Running(an)
            /\ an.ticks > WaitFrames =>
                    /\ an.wait_frames = 0
                    /\ an.captures # <<>>
                    /\ an.captures[1].frame = an.frame_start
            /\ an.ticks = WaitFrames + 1 => Len(an.captures) = 1)
    /\ [][(Running(an) /\ an'.ticks # an.ticks /\ an.ticks < WaitFrames) =>
            /\ an' = [an EXCEPT !.wait_frames = @ - 1, !.ticks = @ + 1,
                                !.ret = "RUNNING_MODAL"]
            /\ UNCHANGED <<layoutVars, folderExists, hostVars, cmb, ss>>
         ]_vars

C15_Witness ==
    /\ Running(an)
    /\ an.ticks = WaitFrames + 1
    /\ Len(an.captures) = 1
    /\ an.wait_frames = 0

(***************************************************************************)
(* Properties of the overlay flags around the captures.                    *)
(***************************************************************************)
Hidden(f) == ~f.ui /\ ~f.toolbar

\* C16: for a capture operation that runs with no other capture beside it,
\* single-frame or animation, every screenshot is issued while the sidebar
\* and the toolbar are hidden: the flags are hidden when the timer is
\* scheduled and stay hidden as long as the handler runs, so they are never
\* restored between two captures, and they are restored only once the last
\* screenshot has been issued.
C16_ScreenshotsTakenWithOverlaysHidden ==
    /\ ss.alone =>
            /\ \A i \in 1..Len(ss.shots) : Hidden(ss.shots[i])
            /\ ss.timer => Running(ss)
            /\ Running(ss) => (ss.timer /\ Hidden(flags) /\ ss.shots = <<>>)
            /\ ss.pc = "done" => Len(ss.shots) = 1
    /\ an.alone =>
            /\ \A i \in 1..Len(an.captures) : Hidden(an.captures[i])
            /\ an.timer => Running(an)
            /\ Running(an) => (an.timer /\ Hidden(flags))
            /\ Ended(an) => Len(an.captures) = RangeLength(an)

C16_Witness ==
    /\ ss.alone /\ ss.pc = "done" /\ ~Hidden(ss.pre[1])
    /\ an.alone /\ an.pc = "done" /\ ~Hidden(an.pre[1])
    /\ Len(an.captures) = MaxFrames

(***************************************************************************)
(* Properties of the combiner called by the animation capture.             *)
(***************************************************************************)
\* The file names of the captures a run issued.
CapturedNames(op) == {op.captures[i].name : i \in 1..Len(op.captures)}

Elements(seq) == {seq[i] : i \in 1..Len(seq)}

\* C17: after any sequence of animation runs on one output path, earlier
\* runs whose encode failed and runs with other frame ranges included, the
\* image sequence the combiner encodes for a run is that run's frames and no
\* others: the render scene's frame_end and the strip's length are
\* end - start + 1, and no frame file an earlier run left is in it.
C17_Original ==
    (Ended(an) /\ cmb.created = 1) =>
        /\ Elements(cmb.images) = CapturedNames(an)
        /\ cmb.frame_end = RangeLength(an)
        /\ cmb.strip # <<>> =>
                /\ Elements(cmb.strip) = CapturedNames(an)
                /\ Len(cmb.strip) = RangeLength(an)
                /\ cmb.duration = RangeLength(an)

\* C18: whenever the combiner has returned, FINISHED or CANCELLED, the path
\* on which the render raises included, the window's active scene is the
\* scene that was active when the combiner was called.
C18_Original ==
    CombineReturned => windowScene = cmb.pre.windowScene

\* C19: whenever the combiner returns CANCELLED (no temp directory, no
\* image in it, or an exception while the strip is made or the render runs)
\* the temp directory and the files in it are as they were on entry; the
\* directory is deleted only on the path on which the render completed
\* without an exception.
C19_CancelledKeepsTempDirectory ==
    /\ cmb.ret = "CANCELLED" =>
            /\ tempExists = cmb.pre.tempExists
            /\ tempFiles = cmb.pre.tempFiles
    /\ (CombineReturned /\ cmb.pre.tempExists /\ ~tempExists) =>
            /\ cmb.ret = "FINISHED"
            /\ cmb.renders = 1
            /\ cmb.raised = "none"
            /\ cmb.rmtree = "done"

C19_Witness ==
    /\ cmb.ret = "CANCELLED"
    /\ cmb.raised = "render"
    /\ tempExists
    /\ Cardinality(tempFiles) > 1
    /\ ForeignFile \in tempFiles

(***************************************************************************)
(* Termination of the animation capture.                                   *)
(***************************************************************************)
\* C20: with timer ticks delivered fairly, every animation capture started
\* on a range start..end with start <= end comes to its end, and does so on
\* tick number 2 + (end - start + 1) + 1 counted from the request.  The
\* frame counter only grows, by one on each capturing tick, and never
\* exceeds end + 1.
C20_AnimTerminatesOnFinishingTick ==
    /\ [](AnimStarted =>
            /\ an.frame_start <= an.frame_end
            /\ an.frame_current \in an.frame_start..(an.frame_end + 1)
            /\ an.ticks <= FinishingTick(an)
            /\ Ended(an) =>
                    /\ an.ticks = WaitFrames + RangeLength(an) + 1
                    /\ an.frame_current = an.frame_end + 1)
    /\ [][Running(an) =>
            /\ an'.frame_current >= an.frame_current
            /\ IF Len(an'.captures) > Len(an.captures)
               THEN an'.frame_current = an.frame_current + 1
               ELSE an'.frame_current = an.frame_current
         ]_vars
    /\ (Running(an) ~> Ended(an))

C20_Witness ==
    /\ Ended(an)
    /\ RangeLength(an) = MaxFrames
    /\ an.ticks = WaitFrames + MaxFrames + 1

=============================================================================
